---- MODULE Spec2Model ----
(***************************************************************************)
(* Swap orchestration of the SubWallet extension: SwapBaseHandler          *)
(* (generic process assembly, step validation) and HydradxHandler (step    *)
(* generators, early request validation).  Amounts are BigNumber values    *)
(* in the code, unbounded integers here.  An optional value (undefined in  *)
(* the code) is the empty sequence, a present value v is <<v>>.            *)
(***************************************************************************)
EXTENDS Integers, Sequences, FiniteSets, TLC

\* ------------------------------------------------------------ bounds
MaxAmount == 3
MaxFee == 1
MaxGens == 2
MaxTime == 2
MaxMin == 1
\* Remote refreshes one store may go through.
MaxFetches == 2

None == <<>>
Some(v) == <<v>>
OrZero(opt) == IF opt = None THEN 0 ELSE opt[1]

Amounts == 0..MaxAmount
OptAmounts == {None} \cup {Some(n) : n \in Amounts}
Times == 0..MaxTime
OptMins == {None} \cup {Some(n) : n \in 0..MaxMin}

\* ------------------------------------------------------------ chain service
\* The venue chain (HydradxHandler.chain) and the static asset registry.
HydradxChain == "hydradx"

AssetInfo ==
  [A   |-> [originChain |-> "hydradx",  hasAssetId |-> TRUE],
   B   |-> [originChain |-> "hydradx",  hasAssetId |-> TRUE],
   N   |-> [originChain |-> "hydradx",  hasAssetId |-> FALSE],
   X   |-> [originChain |-> "polkadot", hasAssetId |-> TRUE],
   E   |-> [originChain |-> "moonbeam", hasAssetId |-> TRUE],
   ALT |-> [originChain |-> "polkadot", hasAssetId |-> TRUE]]

getAssetBySlug(slug) == AssetInfo[slug]

ChainInfo ==
  [hydradx  |-> [isEvm |-> FALSE],
   polkadot |-> [isEvm |-> FALSE],
   moonbeam |-> [isEvm |-> TRUE]]

_isChainEvmCompatible(chain) == ChainInfo[chain].isEvm

\* A swap pair; alternativeAsset is the pair's configured top-up source.
Pair(f, t, alt) == [from |-> f, to |-> t, alternativeAsset |-> alt]

getSwapAlternativeAsset(pair) == pair.alternativeAsset

\* Pairs whose source asset is held on the venue chain: the pairs a quote,
\* and so a process, is built for.
QuotedPairs ==
  {Pair("A", "B", Some("ALT")), Pair("A", "B", None), Pair("A", "E", None)}

\* Pairs a request can name, the unsupported ones included.
RequestPairs ==
  QuotedPairs \cup
  {Pair("X", "B", None), Pair("A", "X", None), Pair("N", "B", None), Pair("A", "N", None),
   Pair("N", "X", None)}

\* ------------------------------------------------------------ fee and step values
\* amount is optional: the code reads it as (amount || '0').
NetworkFee(amount) == [feeType |-> "NETWORK_FEE", amount |-> amount]
FeeInfo(components, token) == [feeComponent |-> components, defaultFeeToken |-> token]

MOCK_SWAP_FEE == FeeInfo(<<>>, "")
DEFAULT_SWAP_FIRST_STEP == [id |-> 0, name |-> "Fill information", type |-> "DEFAULT", metadata |-> None]

\* The fee info of a quote as getSwapQuote fills it.
QuoteFees == {FeeInfo(<<>>, "A")}

\* ------------------------------------------------------------ state
VARIABLES
  now,              \* Date.now()
  balance,          \* balanceService: free balance of each held asset
  minAmount,        \* chainService: optional minAmount of each held asset
  pc,               \* position of the generateOptimalProcess call in flight
  params,           \* its OptimalSwapPathParams
  genStepFuncList,  \* its generator list
  gi,               \* index of the generator the loop is at (1-based)
  result,           \* the path under construction
  returned,         \* the path the call returned, once it has
  invoked,          \* history: indices of the generators started, in order
  yields,           \* history: the outcome of each generator that has completed
  balanceMoved,     \* history: a balance moved since the last getXcmStep read them
  call,             \* the last validation call and its outcome, until consumed
  lastExceed,       \* history: the call consumed last reported SWAP_EXCEED_ALLOWANCE
  isTestnet,        \* HydradxHandler.isTestnet, fixed by the constructor
  isReady,          \* HydradxHandler.isReady
  tradeRouter,      \* HydradxHandler.tradeRouter, undefined until init has run
  issued,           \* the quote getSwapQuote returned last, with the time it was made
  prevRequest,      \* history: the validateSwapRequest call consumed last, until a balance moves
  quoteStale,       \* history: a balance moved since the quote held was made
  initPc,           \* position of each HydradxHandler.init call in flight
  chainActive,      \* chainService: the venue chain is enabled
  store,            \* KoniState.priceStore / nftStore: the value stored, if any
  storeReady,       \* KoniState.priceStoreReady / nftStoreReady
  getPc,            \* position of the getPrice / getNft call in flight
  fetches,          \* history: remote fetches made for getPrice / getNft, capped
  delivered         \* the value the last getPrice / getNft gave its callback

vars ==
  <<now, balance, minAmount, pc, params, genStepFuncList, gi, result, returned,
    invoked, yields, balanceMoved, call, lastExceed, isTestnet, isReady, tradeRouter,
    issued, prevRequest, quoteStale, initPc, chainActive, store, storeReady, getPc, fetches,
    delivered>>

\* The fields of HydradxHandler and the quote its caller holds.
handlerVars == <<isTestnet, isReady, tradeRouter, issued>>

\* The positions of the init calls, the fields of KoniState and the history
\* kept for the properties: what the swap operations leave alone.
initVars == <<initPc, chainActive>>
koniVars == <<store, storeReady, getPc, fetches, delivered>>
restVars == <<prevRequest, quoteStale, initVars, koniVars>>

HeldAssets == {"A", "ALT"}
Balances == [HeldAssets -> Amounts]

\* A quote as the handlers read it.
Quote(pair, fromAmount, aliveUntil, minSwap, feeInfo) ==
  [pair |-> pair, fromAmount |-> fromAmount, aliveUntil |-> aliveUntil,
   minSwap |-> minSwap, feeInfo |-> feeInfo]

\* Outcome of an asynchronous call: a value, or a rejection.
Value(v) == [kind |-> "value", value |-> v]
Throw == [kind |-> "throw", value |-> None]

\* A validation call: its arguments, what the balance service did during it
\* (io) and its outcome.
NoCall == [op |-> "none", args |-> None, io |-> "ok", outcome |-> Value(None)]
NoParams == [request |-> [pair |-> Pair("A", "B", None), fromAmount |-> 0], selectedQuote |-> None]
EmptyPath == [steps |-> <<>>, totalFee |-> <<>>]

\* ------------------------------------------------------------ step generators
\* What the collaborators answer during one getXcmStep: the balance queries
\* resolve or reject, the fee dry-run rejects or gives partialFee.
RpcOutcomes == [balance : {"ok", "reject"}, dryRun : {None} \cup {Some(f) : f \in 0..MaxFee}]

\* Math.round(partialFee * 1.2) for an integer partialFee (no tie occurs).
RoundFee(partialFee) == (12 * partialFee + 5) \div 10

\* Mutant of getXcmStep: a step is emitted only if the alternative balance
\* covers the whole amount.
getXcmStepNeedsFullCover(p, io) ==
  LET bnAmount == p.request.fromAmount
      pair == p.request.pair
      bnFromAssetBalance == balance[pair.from]
      alternativeAssetSlug == getSwapAlternativeAsset(pair)
  IN  IF io.balance = "reject" THEN Throw
      ELSE IF bnFromAssetBalance >= bnAmount THEN Value(None)
      ELSE IF alternativeAssetSlug = None THEN Value(None)
      ELSE IF ~(balance[alternativeAssetSlug[1]] >= bnAmount) THEN Value(None)
      ELSE IF io.dryRun = None THEN Throw
      ELSE Value(Some(
             <<[name |-> "Transfer", type |-> "XCM",
                metadata |-> Some([sendingValue |-> bnAmount,
                                   originTokenInfo |-> alternativeAssetSlug[1],
                                   destinationTokenInfo |-> pair.from])],
               FeeInfo(<<NetworkFee(Some(RoundFee(io.dryRun[1])))>>, "DOT")>>))

\* Mutant of getXcmStep: the step is emitted whenever the alternative asset
\* is funded, short of balance or not.
getXcmStepWhenAltFunded(p, io) ==
  LET bnAmount == p.request.fromAmount
      pair == p.request.pair
      alternativeAssetSlug == getSwapAlternativeAsset(pair)
  IN  IF io.balance = "reject" THEN Throw
      ELSE IF alternativeAssetSlug = None THEN Value(None)
      ELSE IF ~(balance[alternativeAssetSlug[1]] > 0) THEN Value(None)
      ELSE IF io.dryRun = None THEN Throw
      ELSE Value(Some(
             <<[name |-> "Transfer", type |-> "XCM",
                metadata |-> Some([sendingValue |-> bnAmount,
                                   originTokenInfo |-> alternativeAssetSlug[1],
                                   destinationTokenInfo |-> pair.from])],
               FeeInfo(<<NetworkFee(Some(RoundFee(io.dryRun[1])))>>, "DOT")>>))

getXcmStep(p, io) ==
  LET bnAmount == p.request.fromAmount
      pair == p.request.pair
      bnFromAssetBalance == balance[pair.from]
      alternativeAssetSlug == getSwapAlternativeAsset(pair)
  IN  IF io.balance = "reject" THEN Throw
      ELSE IF bnFromAssetBalance >= bnAmount THEN Value(None)
      ELSE IF alternativeAssetSlug = None THEN Value(None)
      ELSE IF ~(balance[alternativeAssetSlug[1]] > 0) THEN Value(None)
      ELSE IF io.dryRun = None THEN Throw
      ELSE Value(Some(
             <<[name |-> "Transfer", type |-> "XCM",
                metadata |-> Some([sendingValue |-> bnAmount,
                                   originTokenInfo |-> alternativeAssetSlug[1],
                                   destinationTokenInfo |-> pair.from])],
               FeeInfo(<<NetworkFee(Some(RoundFee(io.dryRun[1])))>>, "DOT")>>))

getSubmitStep(p) ==
  IF p.selectedQuote # None
  THEN Value(Some(<<[name |-> "Swap", type |-> "SWAP", metadata |-> None],
                    p.selectedQuote[1].feeInfo>>))
  ELSE Value(None)

\* Any other GenSwapStepFunc: it yields a step, yields nothing, or fails.
StubOutcomes ==
  {Throw, Value(None),
   Value(Some(<<[name |-> "Approve", type |-> "TOKEN_APPROVAL", metadata |-> None],
                MOCK_SWAP_FEE>>))}

GenSwapStepFuncs == {"getXcmStep", "getSubmitStep", "genStep"}

\* The generic caller's generators: "genStep" stands for any GenSwapStepFunc,
\* each call of it having any of the three outcomes.
AnyGenSwapStepFuncs == {"genStep"}

GenOutcomes(genStepFunc, p) ==
  CASE genStepFunc = "getXcmStep" -> {getXcmStep(p, io) : io \in RpcOutcomes}
    [] genStepFunc = "getSubmitStep" -> {getSubmitStep(p)}
    [] OTHER -> StubOutcomes

\* ------------------------------------------------------------ generateOptimalProcess
\* Parameters of a generation call: a request for a quoted pair and,
\* optionally, the selected quote for that request.
GenParamsFor(pr, a) ==
  {[request |-> [pair |-> pr, fromAmount |-> a], selectedQuote |-> q] :
     q \in {None} \cup {Some(Quote(pr, a, MaxTime, None, f)) : f \in QuoteFees}}

GenParams == UNION {GenParamsFor(pr, a) : pr \in {q \in QuotedPairs : q.to = "B"}, a \in Amounts}

RECURSIVE SeqsUpTo(_, _)
SeqsUpTo(S, n) ==
  IF n = 0 THEN {<<>>}
  ELSE LET shorter == SeqsUpTo(S, n - 1)
       IN  shorter \cup {Append(q, x) : q \in shorter, x \in S}

GenLists == SeqsUpTo(AnyGenSwapStepFuncs, MaxGens)

\* Mutants of pushStep: the fee is not pushed; the step is put in front of the
\* seed; the id is counted from one.
pushStepWithoutFee(res, step) ==
  [steps |-> Append(res.steps,
                    [id |-> Len(res.steps), name |-> step[1].name,
                     type |-> step[1].type, metadata |-> step[1].metadata]),
   totalFee |-> res.totalFee]

pushStepInFront(res, step) ==
  [steps |-> <<[id |-> Len(res.steps), name |-> step[1].name,
                type |-> step[1].type, metadata |-> step[1].metadata]>> \o res.steps,
   totalFee |-> <<step[2]>> \o res.totalFee]

pushStepIdFromOne(res, step) ==
  [steps |-> Append(res.steps,
                    [id |-> Len(res.steps) + 1, name |-> step[1].name,
                     type |-> step[1].type, metadata |-> step[1].metadata]),
   totalFee |-> Append(res.totalFee, step[2])]

\* result.steps.push({ id: result.steps.length, ...step[0] }); result.totalFee.push(step[1])
pushStep(res, step) ==
  [steps |-> Append(res.steps,
                    [id |-> Len(res.steps), name |-> step[1].name,
                     type |-> step[1].type, metadata |-> step[1].metadata]),
   totalFee |-> Append(res.totalFee, step[2])]

\* The seed path and the start of the loop.
BeginProcess(p, list) ==
  /\ pc = "idle"
  /\ call = NoCall
  /\ pc' = "loop"
  /\ params' = p
  /\ genStepFuncList' = list
  /\ gi' = 1
  /\ result' = [totalFee |-> <<MOCK_SWAP_FEE>>, steps |-> <<DEFAULT_SWAP_FIRST_STEP>>]
  /\ returned' = None
  /\ invoked' = <<>>
  /\ yields' = <<>>
  /\ balanceMoved' = FALSE
  /\ UNCHANGED <<now, balance, minAmount, call, lastExceed, handlerVars, restVars>>

\* SwapBaseHandler.generateOptimalProcess called with any generator list.
BaseGenerateOptimalProcess ==
  \E list \in GenLists : BeginProcess(NoParams, list)

\* HydradxHandler.generateOptimalProcess: the list is [getXcmStep, getSubmitStep].
HydradxGenerateOptimalProcess ==
  \E p \in GenParams : BeginProcess(p, <<"getXcmStep", "getSubmitStep">>)

\* const step = await genStepFunc.bind(this, params)(): the generator starts.
GenInvoke ==
  /\ pc = "loop"
  /\ gi <= Len(genStepFuncList)
  /\ pc' = "await"
  /\ invoked' = Append(invoked, gi)
  /\ UNCHANGED <<now, balance, minAmount, params, genStepFuncList, gi, result,
                 returned, yields, balanceMoved, call, lastExceed, handlerVars, restVars>>

NoteRead == IF genStepFuncList[gi] = "getXcmStep" THEN FALSE ELSE balanceMoved

\* The generator resolves: its step, if any, is pushed and the loop goes on.
GenResolve ==
  /\ pc = "await"
  /\ \E o \in GenOutcomes(genStepFuncList[gi], params) :
       /\ o.kind = "value"
       /\ result' = IF o.value # None THEN pushStep(result, o.value[1]) ELSE result
       /\ yields' = Append(yields, o)
  /\ pc' = "loop"
  /\ gi' = gi + 1
  /\ balanceMoved' = NoteRead
  /\ UNCHANGED <<now, balance, minAmount, params, genStepFuncList, returned,
                 invoked, call, lastExceed, handlerVars, restVars>>

\* Mutant of GenReject: a failure rolls the path back to the seed.
GenRejectRollback ==
  /\ pc = "await"
  /\ \E o \in GenOutcomes(genStepFuncList[gi], params) : o.kind = "throw"
  /\ pc' = "done"
  /\ returned' = Some([totalFee |-> <<MOCK_SWAP_FEE>>, steps |-> <<DEFAULT_SWAP_FIRST_STEP>>])
  /\ yields' = Append(yields, Throw)
  /\ balanceMoved' = FALSE
  /\ UNCHANGED <<now, balance, minAmount, params, genStepFuncList, gi, result,
                 invoked, call, lastExceed, handlerVars, restVars>>

\* The generator rejects: catch (e) { return result }.
GenReject ==
  /\ pc = "await"
  /\ \E o \in GenOutcomes(genStepFuncList[gi], params) : o.kind = "throw"
  /\ pc' = "done"
  /\ returned' = Some(result)
  /\ yields' = Append(yields, Throw)
  /\ balanceMoved' = NoteRead
  /\ UNCHANGED <<now, balance, minAmount, params, genStepFuncList, gi, result,
                 invoked, call, lastExceed, handlerVars, restVars>>

\* The loop is over: return result.
GenReturn ==
  /\ pc = "loop"
  /\ gi > Len(genStepFuncList)
  /\ pc' = "done"
  /\ returned' = Some(result)
  /\ UNCHANGED <<now, balance, minAmount, params, genStepFuncList, gi, result,
                 invoked, yields, balanceMoved, call, lastExceed, handlerVars, restVars>>

\* The caller is done with the path; the handler is free for the next request.
Release ==
  /\ pc = "done"
  /\ call = NoCall
  /\ pc' = "idle"
  /\ params' = NoParams
  /\ genStepFuncList' = <<>>
  /\ gi' = 1
  /\ result' = EmptyPath
  /\ returned' = None
  /\ invoked' = <<>>
  /\ yields' = <<>>
  /\ balanceMoved' = FALSE
  /\ UNCHANGED <<now, balance, minAmount, call, lastExceed, handlerVars, restVars>>

\* Another transaction of the account moves the balance of one asset.
MoveBalance(assets) ==
  /\ call = NoCall
  /\ \E a \in assets, v \in Amounts :
       /\ v \in {balance[a] - 1, balance[a] + 1}
       /\ balance' = [balance EXCEPT ![a] = v]
  /\ balanceMoved' = (pc # "idle")
  /\ UNCHANGED <<now, minAmount, pc, params, genStepFuncList, gi, result, returned,
                 invoked, yields, call, lastExceed, handlerVars, restVars>>

BalanceUpdate == MoveBalance(HeldAssets)

\* ------------------------------------------------------------ validateXcmStep
TransactionError(errorType, values) == [errorType |-> errorType, values |-> values]

\* Mutant of XcmStepErrors: the floor must be exceeded, not only met.
XcmStepErrorsStrict(bnAmount, bnAlternativeAssetBalance, bnFromAssetBalance, xcmFee, altInputTokenMinAmount) ==
  LET missingAmount == bnAmount - bnFromAssetBalance
      xcmAmount == missingAmount + xcmFee
  IN  IF ~(bnAlternativeAssetBalance - xcmAmount > altInputTokenMinAmount)
      THEN <<[errorType |-> "NOT_ENOUGH_BALANCE",
              values |-> <<bnFromAssetBalance + bnAlternativeAssetBalance - xcmFee - altInputTokenMinAmount,
                           bnFromAssetBalance,
                           bnAlternativeAssetBalance - xcmFee - altInputTokenMinAmount>>]>>
      ELSE <<>>

\* Mutant of XcmStepErrors: the fee is not taken off the maximum.
XcmStepErrorsMaxWithFee(bnAmount, bnAlternativeAssetBalance, bnFromAssetBalance, xcmFee, altInputTokenMinAmount) ==
  LET missingAmount == bnAmount - bnFromAssetBalance
      xcmAmount == missingAmount + xcmFee
  IN  IF ~(bnAlternativeAssetBalance - xcmAmount >= altInputTokenMinAmount)
      THEN <<[errorType |-> "NOT_ENOUGH_BALANCE",
              values |-> <<bnFromAssetBalance + bnAlternativeAssetBalance - altInputTokenMinAmount,
                           bnFromAssetBalance,
                           bnAlternativeAssetBalance - xcmFee - altInputTokenMinAmount>>]>>
      ELSE <<>>

\* The balance comparison of validateXcmStep on the values it has read; the
\* numbers of the error are maxBn, the current balance and bnMaxXCM.
XcmStepErrors(bnAmount, bnAlternativeAssetBalance, bnFromAssetBalance, xcmFee, altInputTokenMinAmount) ==
  LET missingAmount == bnAmount - bnFromAssetBalance
      xcmAmount == missingAmount + xcmFee
  IN  IF ~(bnAlternativeAssetBalance - xcmAmount >= altInputTokenMinAmount)
      THEN <<TransactionError("NOT_ENOUGH_BALANCE",
               <<bnFromAssetBalance + bnAlternativeAssetBalance - xcmFee - altInputTokenMinAmount,
                 bnFromAssetBalance,
                 bnAlternativeAssetBalance - xcmFee - altInputTokenMinAmount>>)>>
      ELSE <<>>

\* vp: ValidateSwapProcessParams (process, selectedQuote, recipient);
\* stepIndex is 0-based as in the code; io: the balance queries resolve or reject.
validateXcmStep(vp, stepIndex, io) ==
  IF vp.selectedQuote = None THEN Throw
  ELSE
    LET quote == vp.selectedQuote[1]
        alternativeAssetSlug == getSwapAlternativeAsset(quote.pair)
        totalFee == vp.process.totalFee
    IN  IF alternativeAssetSlug = None
        THEN Value(<<TransactionError("INTERNAL_ERROR", <<>>)>>)
        ELSE IF io = "reject" THEN Throw
        ELSE IF stepIndex + 1 > Len(totalFee) THEN Throw
        ELSE IF totalFee[stepIndex + 1].feeComponent = <<>> THEN Throw
        ELSE Value(XcmStepErrors(quote.fromAmount,
                                 balance[alternativeAssetSlug[1]],
                                 balance[quote.pair.from],
                                 OrZero(totalFee[stepIndex + 1].feeComponent[1].amount),
                                 OrZero(minAmount[alternativeAssetSlug[1]])))

\* 0-based indices of the steps of a path that have the given type.
StepIndices(path, type) == {i \in 0..(Len(path.steps) - 1) : path.steps[i + 1].type = type}

\* The caller validates the cross-chain step of the path it was returned.
ValidateXcmStepCall ==
  /\ pc = "done"
  /\ call = NoCall
  /\ \E stepIndex \in StepIndices(returned[1], "XCM"), io \in {"ok", "reject"} :
       LET vp == [process |-> returned[1], selectedQuote |-> params.selectedQuote,
                  recipient |-> None]
       IN  call' = [op |-> "validateXcmStep",
                    args |-> Some([params |-> vp, stepIndex |-> stepIndex]),
                    io |-> io,
                    outcome |-> validateXcmStep(vp, stepIndex, io)]
  /\ UNCHANGED <<now, balance, minAmount, pc, params, genStepFuncList, gi, result,
                 returned, invoked, yields, balanceMoved, lastExceed, handlerVars, restVars>>

\* The error kinds a returned call reports: validateSwapRequest returns at
\* most one (error), getSwapQuote a SwapError or a quote, the step and
\* process validations a sequence of TransactionError.
ErrorTypesOf(c) ==
  IF c.outcome.kind # "value" THEN {}
  ELSE IF c.op = "validateSwapRequest"
       THEN {c.outcome.value.error[i] : i \in 1..Len(c.outcome.value.error)}
  ELSE IF c.op = "getSwapQuote"
       THEN (IF "errorType" \in DOMAIN c.outcome.value THEN {c.outcome.value.errorType} ELSE {})
       ELSE {c.outcome.value[i].errorType : i \in 1..Len(c.outcome.value)}

HasError(c, errorType) == errorType \in ErrorTypesOf(c)

\* The caller has taken the outcome of its validation call.
Consume ==
  /\ call # NoCall
  /\ call' = NoCall
  /\ lastExceed' = HasError(call, "SWAP_EXCEED_ALLOWANCE")
  /\ UNCHANGED <<now, balance, minAmount, pc, params, genStepFuncList, gi, result,
                 returned, invoked, yields, balanceMoved, handlerVars, restVars>>

\* ------------------------------------------------------------ validateSwapStep
\* Mutants of the two comparisons: the boundary value is let through.
quoteExpiredAfterDeadline(aliveUntil, currentTimestamp) == aliveUntil < currentTimestamp

exceedsAllowanceStrictly(bnAmount, bnMaxBalanceSwap) == bnAmount > bnMaxBalanceSwap

\* selectedQuote.aliveUntil <= currentTimestamp
quoteExpired(aliveUntil, currentTimestamp) == aliveUntil <= currentTimestamp

\* bnAmount.gte(bnMaxBalanceSwap), in validateSwapStep and validateSwapRequest
exceedsAllowance(bnAmount, bnMaxBalanceSwap) == bnAmount >= bnMaxBalanceSwap

\* Mutant of notAboveMinSwap: a balance equal to the minimum is let through.
belowMinSwap(bnFromAssetBalance, minProtocolSwap) == bnFromAssetBalance < minProtocolSwap

\* bnFromAssetBalance.lte(minProtocolSwap)
notAboveMinSwap(bnFromAssetBalance, minProtocolSwap) == bnFromAssetBalance <= minProtocolSwap

\* Mutant of recipientMismatch: only an EVM address is ever refused.
recipientMismatchEvmOnly(isEvmAddress, isEvmDestChain) == isEvmAddress /\ ~isEvmDestChain

\* (isEvmAddress && !isEvmDestChain) || (!isEvmAddress && isEvmDestChain)
recipientMismatch(isEvmAddress, isEvmDestChain) ==
  (isEvmAddress /\ ~isEvmDestChain) \/ (~isEvmAddress /\ isEvmDestChain)

_getTokenMinAmount(slug) == OrZero(minAmount[slug])

Recipients == {"0xEvmAddress", "5SubstrateAddress"}
isEthereumAddress(address) == address = "0xEvmAddress"

\* Mutant of validateSwapStep: after a top-up judged valid the amount is not
\* compared with the balance.
validateSwapStepTrustingXcm(vp, isXcmOk, io) ==
  IF vp.selectedQuote = None
  THEN Value(<<TransactionError("INTERNAL_ERROR", <<>>)>>)
  ELSE
    LET selectedQuote == vp.selectedQuote[1]
        bnAmount == selectedQuote.fromAmount
        fromAsset == selectedQuote.pair.from
        bnFromAssetBalance == balance[fromAsset]
        bnMaxBalanceSwap == bnFromAssetBalance - _getTokenMinAmount(fromAsset)
        toAsset == getAssetBySlug(selectedQuote.pair.to)
        isEvmAddress == isEthereumAddress(vp.recipient[1])
        isEvmDestChain == _isChainEvmCompatible(toAsset.originChain)
    IN  IF quoteExpired(selectedQuote.aliveUntil, now)
        THEN Value(<<TransactionError("QUOTE_TIMEOUT", <<>>)>>)
        ELSE IF io = "reject" THEN Throw
        ELSE IF selectedQuote.minSwap # None
                /\ notAboveMinSwap(bnFromAssetBalance, selectedQuote.minSwap[1])
        THEN Value(<<TransactionError("SWAP_NOT_ENOUGH_BALANCE", <<selectedQuote.minSwap[1]>>)>>)
        ELSE IF ~isXcmOk /\ exceedsAllowance(bnAmount, bnMaxBalanceSwap)
        THEN Value(<<TransactionError("SWAP_EXCEED_ALLOWANCE", <<bnMaxBalanceSwap>>)>>)
        ELSE IF vp.recipient # None /\ recipientMismatch(isEvmAddress, isEvmDestChain)
        THEN Value(<<TransactionError("INVALID_RECIPIENT", <<>>)>>)
        ELSE Value(<<>>)

\* vp: ValidateSwapProcessParams; isXcmOk is not read; io: the balance query
\* resolves or rejects.
validateSwapStep(vp, isXcmOk, io) ==
  IF vp.selectedQuote = None
  THEN Value(<<TransactionError("INTERNAL_ERROR", <<>>)>>)
  ELSE
    LET selectedQuote == vp.selectedQuote[1]
        bnAmount == selectedQuote.fromAmount
        fromAsset == selectedQuote.pair.from
        bnFromAssetBalance == balance[fromAsset]
        bnMaxBalanceSwap == bnFromAssetBalance - _getTokenMinAmount(fromAsset)
        toAsset == getAssetBySlug(selectedQuote.pair.to)
        isEvmAddress == isEthereumAddress(vp.recipient[1])
        isEvmDestChain == _isChainEvmCompatible(toAsset.originChain)
    IN  IF quoteExpired(selectedQuote.aliveUntil, now)
        THEN Value(<<TransactionError("QUOTE_TIMEOUT", <<>>)>>)
        ELSE IF io = "reject" THEN Throw
        ELSE IF selectedQuote.minSwap # None
                /\ notAboveMinSwap(bnFromAssetBalance, selectedQuote.minSwap[1])
        THEN Value(<<TransactionError("SWAP_NOT_ENOUGH_BALANCE", <<selectedQuote.minSwap[1]>>)>>)
        ELSE IF exceedsAllowance(bnAmount, bnMaxBalanceSwap)
        THEN Value(<<TransactionError("SWAP_EXCEED_ALLOWANCE", <<bnMaxBalanceSwap>>)>>)
        ELSE IF vp.recipient # None /\ recipientMismatch(isEvmAddress, isEvmDestChain)
        THEN Value(<<TransactionError("INVALID_RECIPIENT", <<>>)>>)
        ELSE Value(<<>>)

\* Quotes a caller can hold: issued for a quoted pair, with any deadline and
\* any, or no, minimum swap size.
Quotes ==
  {Quote(pr, a, t, m, f) :
     pr \in QuotedPairs, a \in Amounts, t \in Times, m \in OptAmounts, f \in QuoteFees}

SwapStepParams ==
  [process : {EmptyPath},
   selectedQuote : {None} \cup {Some(q) : q \in Quotes},
   recipient : {None} \cup {Some(r) : r \in Recipients}]

ValidateSwapStepCall ==
  /\ call = NoCall
  /\ \E vp \in SwapStepParams, isXcmOk \in BOOLEAN, io \in {"ok", "reject"} :
       call' = [op |-> "validateSwapStep",
                args |-> Some([params |-> vp, isXcmOk |-> isXcmOk]),
                io |-> io,
                outcome |-> validateSwapStep(vp, isXcmOk, io)]
  /\ UNCHANGED <<now, balance, minAmount, pc, params, genStepFuncList, gi, result,
                 returned, invoked, yields, balanceMoved, lastExceed, handlerVars, restVars>>

\* ------------------------------------------------------------ validateSwapRequest
SwapEarlyValidation(error, metadata) == [error |-> error, metadata |-> metadata]

\* Mutant of validateSwapRequest: the on-chain ids are tested before the
\* origin chains.
validateSwapRequestIdsFirst(request, io) ==
  LET fromAsset == getAssetBySlug(request.pair.from)
      toAsset == getAssetBySlug(request.pair.to)
      bnAmount == request.fromAmount
      bnMaxBalanceSwap == balance[request.pair.from] - _getTokenMinAmount(request.pair.from)
  IN  IF ~fromAsset.hasAssetId \/ ~toAsset.hasAssetId
      THEN SwapEarlyValidation(Some("UNKNOWN"), None)
      ELSE IF ~(fromAsset.originChain = HydradxChain /\ toAsset.originChain = HydradxChain)
      THEN SwapEarlyValidation(Some("ASSET_NOT_SUPPORTED"), None)
      ELSE IF io = "reject"
      THEN SwapEarlyValidation(Some("UNKNOWN"), None)
      ELSE IF bnAmount <= 0
      THEN SwapEarlyValidation(Some("AMOUNT_CANNOT_BE_ZERO"), None)
      ELSE IF exceedsAllowance(bnAmount, bnMaxBalanceSwap)
      THEN SwapEarlyValidation(Some("SWAP_EXCEED_ALLOWANCE"), None)
      ELSE SwapEarlyValidation(None, Some([maxSwap |-> bnMaxBalanceSwap]))

\* Mutants of validateSwapRequest: the first call on a handler returns UNKNOWN
\* and only later ones look at the request; the boundary amount is accepted.
validateSwapRequestColdStart(request, io) ==
  LET fromAsset == getAssetBySlug(request.pair.from)
      toAsset == getAssetBySlug(request.pair.to)
      bnAmount == request.fromAmount
      bnMaxBalanceSwap == balance[request.pair.from] - _getTokenMinAmount(request.pair.from)
  IN  IF prevRequest = None
      THEN SwapEarlyValidation(Some("UNKNOWN"), None)
      ELSE IF ~(fromAsset.originChain = HydradxChain /\ toAsset.originChain = HydradxChain)
      THEN SwapEarlyValidation(Some("ASSET_NOT_SUPPORTED"), None)
      ELSE IF ~fromAsset.hasAssetId \/ ~toAsset.hasAssetId
      THEN SwapEarlyValidation(Some("UNKNOWN"), None)
      ELSE IF io = "reject"
      THEN SwapEarlyValidation(Some("UNKNOWN"), None)
      ELSE IF bnAmount <= 0
      THEN SwapEarlyValidation(Some("AMOUNT_CANNOT_BE_ZERO"), None)
      ELSE IF exceedsAllowance(bnAmount, bnMaxBalanceSwap)
      THEN SwapEarlyValidation(Some("SWAP_EXCEED_ALLOWANCE"), None)
      ELSE SwapEarlyValidation(None, Some([maxSwap |-> bnMaxBalanceSwap]))

validateSwapRequestUpToMax(request, io) ==
  LET fromAsset == getAssetBySlug(request.pair.from)
      toAsset == getAssetBySlug(request.pair.to)
      bnAmount == request.fromAmount
      bnMaxBalanceSwap == balance[request.pair.from] - _getTokenMinAmount(request.pair.from)
  IN  IF ~(fromAsset.originChain = HydradxChain /\ toAsset.originChain = HydradxChain)
      THEN SwapEarlyValidation(Some("ASSET_NOT_SUPPORTED"), None)
      ELSE IF ~fromAsset.hasAssetId \/ ~toAsset.hasAssetId
      THEN SwapEarlyValidation(Some("UNKNOWN"), None)
      ELSE IF io = "reject"
      THEN SwapEarlyValidation(Some("UNKNOWN"), None)
      ELSE IF bnAmount <= 0
      THEN SwapEarlyValidation(Some("AMOUNT_CANNOT_BE_ZERO"), None)
      ELSE IF bnAmount > bnMaxBalanceSwap
      THEN SwapEarlyValidation(Some("SWAP_EXCEED_ALLOWANCE"), None)
      ELSE SwapEarlyValidation(None, Some([maxSwap |-> bnMaxBalanceSwap]))

\* io: the balance query resolves or rejects (the rejection is caught).
validateSwapRequest(request, io) ==
  LET fromAsset == getAssetBySlug(request.pair.from)
      toAsset == getAssetBySlug(request.pair.to)
      bnAmount == request.fromAmount
      bnMaxBalanceSwap == balance[request.pair.from] - _getTokenMinAmount(request.pair.from)
  IN  IF ~(fromAsset.originChain = HydradxChain /\ toAsset.originChain = HydradxChain)
      THEN SwapEarlyValidation(Some("ASSET_NOT_SUPPORTED"), None)
      ELSE IF ~fromAsset.hasAssetId \/ ~toAsset.hasAssetId
      THEN SwapEarlyValidation(Some("UNKNOWN"), None)
      ELSE IF io = "reject"
      THEN SwapEarlyValidation(Some("UNKNOWN"), None)
      ELSE IF bnAmount <= 0
      THEN SwapEarlyValidation(Some("AMOUNT_CANNOT_BE_ZERO"), None)
      ELSE IF exceedsAllowance(bnAmount, bnMaxBalanceSwap)
      THEN SwapEarlyValidation(Some("SWAP_EXCEED_ALLOWANCE"), None)
      ELSE SwapEarlyValidation(None, Some([maxSwap |-> bnMaxBalanceSwap]))

SwapRequests == [pair : RequestPairs, fromAmount : Amounts]

ValidateSwapRequestCall ==
  /\ call = NoCall
  /\ \E request \in SwapRequests, io \in {"ok", "reject"} :
       call' = [op |-> "validateSwapRequest",
                args |-> Some([request |-> request]),
                io |-> io,
                outcome |-> Value(validateSwapRequest(request, io))]
  /\ UNCHANGED <<now, balance, minAmount, pc, params, genStepFuncList, gi, result,
                 returned, invoked, yields, balanceMoved, lastExceed, handlerVars, restVars>>

\* Time passes.
Tick ==
  /\ call = NoCall
  /\ now < MaxTime
  /\ now' = now + 1
  /\ UNCHANGED <<balance, minAmount, pc, params, genStepFuncList, gi, result,
                 returned, invoked, yields, balanceMoved, call, lastExceed, handlerVars, restVars>>

\* The balance of the source asset moves.
SourceBalanceUpdate == MoveBalance({"A"})

\* ------------------------------------------------------------ HydradxHandler
\* The state of a generateOptimalProcess call, which the handler's other
\* operations leave alone.
processVars ==
  <<pc, params, genStepFuncList, gi, result, returned, invoked, yields, balanceMoved>>

\* swapBaseHandler.slug, as the constructor sets it.
slug == IF isTestnet THEN "HYDRADX_TESTNET" ELSE "HYDRADX_MAINNET"

\* init(): once the chain is enabled and its api is ready, the router is
\* built and the flag raised in one step; if an await before that rejects,
\* the handler is left as it was.
HydradxInit ==
  /\ call = NoCall
  /\ \E io \in {"ok", "reject"} :
       IF io = "ok"
       THEN tradeRouter' = Some("TradeRouter") /\ isReady' = TRUE
       ELSE UNCHANGED <<tradeRouter, isReady>>
  /\ UNCHANGED <<now, balance, minAmount, processVars, call, lastExceed, isTestnet, issued,
                 restVars>>

SwapError(errorType) == [errorType |-> errorType]

\* The error of the early validation as a SwapError of the same kind (the
\* message it adds is left out).
getEarlyHydradxValidationError(error, metadata) == SwapError(error)

\* Quote lifetimes per provider slug: one venue has its own, the other has
\* none and takes the default.
SWAP_QUOTE_TIMEOUT_MAP == [default |-> 2, HYDRADX_MAINNET |-> 1]

\* Mutant of quoteTimeout: the venue's own value is ignored.
quoteTimeoutDefaultOnly(providerSlug) == SWAP_QUOTE_TIMEOUT_MAP["default"]

\* SWAP_QUOTE_TIMEOUT_MAP[this.slug] || SWAP_QUOTE_TIMEOUT_MAP.default
quoteTimeout(providerSlug) ==
  IF providerSlug \in DOMAIN SWAP_QUOTE_TIMEOUT_MAP /\ SWAP_QUOTE_TIMEOUT_MAP[providerSlug] # 0
  THEN SWAP_QUOTE_TIMEOUT_MAP[providerSlug]
  ELSE SWAP_QUOTE_TIMEOUT_MAP["default"]

\* The native token of each chain.
_getChainNativeTokenSlug(chain) ==
  [hydradx |-> "A", polkadot |-> "DOT", moonbeam |-> "GLMR"][chain]

_isNativeToken(assetSlug) ==
  _getChainNativeTokenSlug(getAssetBySlug(assetSlug).originChain) = assetSlug

\* Mutants of getSwapQuote: readiness is not looked at; the request is not
\* validated.
getSwapQuoteUngated(request, io) ==
  LET earlyValidation == validateSwapRequest(request, io)
      fromChain == getAssetBySlug(request.pair.from).originChain
      defaultFeeToken ==
        IF _isNativeToken(request.pair.from) THEN request.pair.from
        ELSE _getChainNativeTokenSlug(fromChain)
  IN  IF earlyValidation.error # None
      THEN Value(getEarlyHydradxValidationError(earlyValidation.error[1], earlyValidation.metadata))
      ELSE Value(Quote(request.pair, request.fromAmount, now + quoteTimeout(slug), None,
                       FeeInfo(<<>>, defaultFeeToken)))

getSwapQuoteUnvalidated(request, io) ==
  LET fromChain == getAssetBySlug(request.pair.from).originChain
      defaultFeeToken ==
        IF _isNativeToken(request.pair.from) THEN request.pair.from
        ELSE _getChainNativeTokenSlug(fromChain)
  IN  IF ~isReady \/ tradeRouter = None
      THEN Value(SwapError("UNKNOWN"))
      ELSE Value(Quote(request.pair, request.fromAmount, now + quoteTimeout(slug), None,
                       FeeInfo(<<>>, defaultFeeToken)))

\* io: the balance query of the early validation resolves or rejects.  The
\* body of the try only computes on the two assets and the amount, so the
\* ERROR_FETCHING_QUOTE branch is not taken.
getSwapQuote(request, io) ==
  LET earlyValidation == validateSwapRequest(request, io)
      fromChain == getAssetBySlug(request.pair.from).originChain
      defaultFeeToken ==
        IF _isNativeToken(request.pair.from) THEN request.pair.from
        ELSE _getChainNativeTokenSlug(fromChain)
  IN  IF ~isReady \/ tradeRouter = None
      THEN Value(SwapError("UNKNOWN"))
      ELSE IF earlyValidation.error # None
      THEN Value(getEarlyHydradxValidationError(earlyValidation.error[1], earlyValidation.metadata))
      ELSE Value(Quote(request.pair, request.fromAmount, now + quoteTimeout(slug), None,
                       FeeInfo(<<>>, defaultFeeToken)))

IsQuote(v) == "pair" \in DOMAIN v

\* The caller asks for a quote and keeps the one it gets.
GetSwapQuoteCall ==
  /\ call = NoCall
  /\ \E request \in SwapRequests, io \in {"ok", "reject"} :
       LET outcome == getSwapQuote(request, io)
       IN  /\ call' = [op |-> "getSwapQuote", args |-> Some([request |-> request]),
                       io |-> io, outcome |-> outcome]
           /\ issued' = IF IsQuote(outcome.value)
                        THEN Some([quote |-> outcome.value, at |-> now])
                        ELSE issued
           /\ quoteStale' = IF IsQuote(outcome.value) THEN FALSE ELSE quoteStale
  /\ UNCHANGED <<now, balance, minAmount, processVars, lastExceed, isTestnet, isReady,
                 tradeRouter, prevRequest, initVars, koniVars>>

\* return Promise.resolve([])
validateSwapProcess(vp) == Value(<<>>)

\* The process of a selected quote when the source balance covers the
\* amount: the default step and the swap step.
SubmitProcess(q) ==
  pushStep([totalFee |-> <<MOCK_SWAP_FEE>>, steps |-> <<DEFAULT_SWAP_FIRST_STEP>>],
           getSubmitStep([selectedQuote |-> Some(q)]).value[1])

\* What the caller submits for the quote it holds.
IssuedProcessParams ==
  [process : {SubmitProcess(issued[1].quote)},
   selectedQuote : {Some(issued[1].quote)},
   recipient : {None} \cup {Some(r) : r \in Recipients}]

\* The caller has the process of its quote validated before submission.
ValidateSwapProcessCall ==
  /\ call = NoCall
  /\ issued # None
  /\ \E vp \in IssuedProcessParams :
       call' = [op |-> "validateSwapProcess", args |-> Some([params |-> vp]),
                io |-> "ok", outcome |-> validateSwapProcess(vp)]
  /\ UNCHANGED <<now, balance, minAmount, processVars, lastExceed, handlerVars, restVars>>

\* The swap step of that process is validated by the base handler.
ValidateIssuedSwapStepCall ==
  /\ call = NoCall
  /\ issued # None
  /\ \E vp \in IssuedProcessParams, isXcmOk \in BOOLEAN, io \in {"ok", "reject"} :
       call' = [op |-> "validateSwapStep",
                args |-> Some([params |-> vp, isXcmOk |-> isXcmOk]),
                io |-> io,
                outcome |-> validateSwapStep(vp, isXcmOk, io)]
  /\ UNCHANGED <<now, balance, minAmount, processVars, lastExceed, handlerVars, restVars>>

\* ------------------------------------------------------------ the rest of the state at construction
InitCalls == {1, 2}
Kinds == {"price", "nft"}

\* No init call has started; private priceStoreReady = false, nftStoreReady =
\* false, nothing stored, no get call in flight.
InitIdle == initPc = [i \in InitCalls |-> "idle"]
KoniInit ==
  /\ store = [k \in Kinds |-> None]
  /\ storeReady = [k \in Kinds |-> FALSE]
  /\ getPc = [k \in Kinds |-> "idle"]
  /\ fetches = [k \in Kinds |-> 0]
  /\ delivered = [k \in Kinds |-> None]

RestInit ==
  /\ prevRequest = None
  /\ quoteStale = FALSE
  /\ InitIdle
  /\ chainActive = FALSE
  /\ KoniInit

\* ------------------------------------------------------------ specification: process generation
Init ==
  /\ now = 0
  /\ balance \in Balances
  /\ minAmount \in {m \in [HeldAssets -> OptMins] : m["A"] = None}
  /\ pc = "idle"
  /\ params = NoParams
  /\ genStepFuncList = <<>>
  /\ gi = 1
  /\ result = EmptyPath
  /\ returned = None
  /\ invoked = <<>>
  /\ yields = <<>>
  /\ balanceMoved = FALSE
  /\ call = NoCall
  /\ lastExceed = FALSE
  /\ isTestnet = TRUE
  /\ isReady = FALSE
  /\ tradeRouter = None
  /\ issued = None
  /\ RestInit

Next ==
  \/ BaseGenerateOptimalProcess
  \/ HydradxGenerateOptimalProcess
  \/ GenInvoke
  \/ GenResolve
  \/ GenReject
  \/ GenReturn
  \/ Release
  \/ BalanceUpdate
  \/ HydradxInit
  \/ ValidateXcmStepCall
  \/ Consume

Spec == Init /\ [][Next]_vars

\* ------------------------------------------------------------ specification: swap validation
\* The early and the submission-time validation of a swap, called at any
\* time, balance and floor of the source asset.
InitValidate ==
  /\ now = 0
  /\ balance \in {b \in Balances : b["ALT"] = 0}
  /\ minAmount \in {m \in [HeldAssets -> OptMins] : m["ALT"] = None}
  /\ pc = "idle"
  /\ params = NoParams
  /\ genStepFuncList = <<>>
  /\ gi = 1
  /\ result = EmptyPath
  /\ returned = None
  /\ invoked = <<>>
  /\ yields = <<>>
  /\ balanceMoved = FALSE
  /\ call = NoCall
  /\ lastExceed = FALSE
  /\ isTestnet = TRUE
  /\ isReady = FALSE
  /\ tradeRouter = None
  /\ issued = None
  /\ RestInit

NextValidate ==
  \/ ValidateSwapStepCall
  \/ ValidateSwapRequestCall
  \/ Consume
  \/ Tick
  \/ SourceBalanceUpdate

SpecValidate == InitValidate /\ [][NextValidate]_vars

\* ------------------------------------------------------------ specification: the provider handler
\* One HydradxHandler from its construction: init, quotes, and the
\* validation of the process of the quote held, at any time and balance.
InitHandler ==
  /\ now = 0
  /\ balance \in {b \in Balances : b["ALT"] = 0}
  /\ minAmount \in {m \in [HeldAssets -> OptMins] : m["ALT"] = None}
  /\ pc = "idle"
  /\ params = NoParams
  /\ genStepFuncList = <<>>
  /\ gi = 1
  /\ result = EmptyPath
  /\ returned = None
  /\ invoked = <<>>
  /\ yields = <<>>
  /\ balanceMoved = FALSE
  /\ call = NoCall
  /\ lastExceed = FALSE
  /\ isTestnet \in BOOLEAN
  /\ isReady = FALSE
  /\ tradeRouter = None
  /\ issued = None
  /\ RestInit

NextHandler ==
  \/ HydradxInit
  \/ GetSwapQuoteCall
  \/ ValidateSwapProcessCall
  \/ ValidateIssuedSwapStepCall
  \/ Consume
  \/ Tick
  \/ SourceBalanceUpdate

SpecHandler == InitHandler /\ [][NextHandler]_vars

\* ------------------------------------------------------------ specification: repeated early validation
\* validateSwapRequest called again and again on one handler; the caller
\* keeps the last outcome until a balance moves.
ConsumeRequest ==
  /\ call.op = "validateSwapRequest"
  /\ prevRequest' = Some(call)
  /\ call' = NoCall
  /\ lastExceed' = HasError(call, "SWAP_EXCEED_ALLOWANCE")
  /\ UNCHANGED <<now, balance, minAmount, processVars, handlerVars, quoteStale, initVars,
                 koniVars>>

RequestBalanceUpdate ==
  /\ call = NoCall
  /\ \E v \in Amounts :
       /\ v \in {balance["A"] - 1, balance["A"] + 1}
       /\ balance' = [balance EXCEPT !["A"] = v]
  /\ prevRequest' = None
  /\ UNCHANGED <<now, minAmount, processVars, call, lastExceed, handlerVars, quoteStale,
                 initVars, koniVars>>

NextRequest ==
  \/ ValidateSwapRequestCall
  \/ ConsumeRequest
  \/ RequestBalanceUpdate
  \/ HydradxInit
  \/ Tick

SpecRequest == InitValidate /\ [][NextRequest]_vars

\* ------------------------------------------------------------ specification: the orchestrator sequence
\* One handler driven as its caller drives it: init, a quote, the process for
\* the quote held, the validations of that process, then the next request.
\* Balances move at any point.

\* Mutant of validateTokenApproveStep: a call without a selected quote is
\* refused.
validateTokenApproveStepNeedsQuote(vp, stepIndex) ==
  IF vp.selectedQuote = None
  THEN Value(<<TransactionError("INTERNAL_ERROR", <<>>)>>)
  ELSE Value(<<>>)

\* return Promise.resolve([]), for both routines
validateTokenApproveStep(vp, stepIndex) == Value(<<>>)

validateSetFeeTokenStep(vp, stepIndex) == Value(<<>>)

OrchestratorQuote == pc = "idle" /\ GetSwapQuoteCall

\* generateOptimalProcess for the request of the quote held, that quote selected.
GenerateForQuote ==
  /\ issued # None
  /\ BeginProcess([request |-> [pair |-> issued[1].quote.pair,
                                fromAmount |-> issued[1].quote.fromAmount],
                   selectedQuote |-> Some(issued[1].quote)],
                  <<"getXcmStep", "getSubmitStep">>)

\* A balance moves; the quote held, if any, was made on other balances.
StaleBalanceUpdate ==
  /\ call = NoCall
  /\ \E a \in HeldAssets, v \in Amounts :
       /\ v \in {balance[a] - 1, balance[a] + 1}
       /\ balance' = [balance EXCEPT ![a] = v]
  /\ balanceMoved' = (pc # "idle")
  /\ quoteStale' = (issued # None)
  /\ UNCHANGED <<now, minAmount, pc, params, genStepFuncList, gi, result, returned,
                 invoked, yields, call, lastExceed, handlerVars, prevRequest, initVars,
                 koniVars>>

\* What the caller passes to the validations of the path it was returned.
ReturnedProcessParams ==
  [process : {returned[1]},
   selectedQuote : {params.selectedQuote},
   recipient : {None} \cup {Some(r) : r \in Recipients}]

\* Mutant of ValidateReturnedSwapStepCall: the validation uses up the quote
\* and drops the fees of the path.
ValidateReturnedSwapStepCallConsuming ==
  /\ pc = "done"
  /\ call = NoCall
  /\ \E vp \in ReturnedProcessParams, isXcmOk \in BOOLEAN, io \in {"ok", "reject"} :
       call' = [op |-> "validateSwapStep",
                args |-> Some([params |-> vp, isXcmOk |-> isXcmOk]),
                io |-> io,
                outcome |-> validateSwapStep(vp, isXcmOk, io)]
  /\ returned' = Some([steps |-> returned[1].steps, totalFee |-> <<>>])
  /\ UNCHANGED <<now, balance, minAmount, pc, params, genStepFuncList, gi, result,
                 invoked, yields, balanceMoved, lastExceed, handlerVars, restVars>>

ValidateReturnedSwapStepCall ==
  /\ pc = "done"
  /\ call = NoCall
  /\ \E vp \in ReturnedProcessParams, isXcmOk \in BOOLEAN, io \in {"ok", "reject"} :
       call' = [op |-> "validateSwapStep",
                args |-> Some([params |-> vp, isXcmOk |-> isXcmOk]),
                io |-> io,
                outcome |-> validateSwapStep(vp, isXcmOk, io)]
  /\ UNCHANGED <<now, balance, minAmount, processVars, lastExceed, handlerVars, restVars>>

\* The two routines are called with any step index, in or out of the path,
\* with or without the quote.
ValidateTokenApproveStepCall ==
  /\ pc = "done"
  /\ call = NoCall
  /\ \E vp \in ReturnedProcessParams, q \in {None, params.selectedQuote},
        stepIndex \in 0..Len(returned[1].steps) :
       call' = [op |-> "validateTokenApproveStep",
                args |-> Some([params |-> [vp EXCEPT !.selectedQuote = q],
                               stepIndex |-> stepIndex]),
                io |-> "ok",
                outcome |-> validateTokenApproveStep([vp EXCEPT !.selectedQuote = q], stepIndex)]
  /\ UNCHANGED <<now, balance, minAmount, processVars, lastExceed, handlerVars, restVars>>

ValidateSetFeeTokenStepCall ==
  /\ pc = "done"
  /\ call = NoCall
  /\ \E vp \in ReturnedProcessParams, q \in {None, params.selectedQuote},
        stepIndex \in 0..Len(returned[1].steps) :
       call' = [op |-> "validateSetFeeTokenStep",
                args |-> Some([params |-> [vp EXCEPT !.selectedQuote = q],
                               stepIndex |-> stepIndex]),
                io |-> "ok",
                outcome |-> validateSetFeeTokenStep([vp EXCEPT !.selectedQuote = q], stepIndex)]
  /\ UNCHANGED <<now, balance, minAmount, processVars, lastExceed, handlerVars, restVars>>

ValidateReturnedProcessCall ==
  /\ pc = "done"
  /\ call = NoCall
  /\ \E vp \in ReturnedProcessParams :
       call' = [op |-> "validateSwapProcess", args |-> Some([params |-> vp]),
                io |-> "ok", outcome |-> validateSwapProcess(vp)]
  /\ UNCHANGED <<now, balance, minAmount, processVars, lastExceed, handlerVars, restVars>>

InitOrchestrate ==
  /\ now = 0
  /\ balance \in Balances
  /\ minAmount \in {m \in [HeldAssets -> OptMins] : m["A"] = None}
  /\ pc = "idle"
  /\ params = NoParams
  /\ genStepFuncList = <<>>
  /\ gi = 1
  /\ result = EmptyPath
  /\ returned = None
  /\ invoked = <<>>
  /\ yields = <<>>
  /\ balanceMoved = FALSE
  /\ call = NoCall
  /\ lastExceed = FALSE
  /\ isTestnet = TRUE
  /\ isReady = FALSE
  /\ tradeRouter = None
  /\ issued = None
  /\ RestInit

NextOrchestrate ==
  \/ HydradxInit
  \/ OrchestratorQuote
  \/ GenerateForQuote
  \/ GenInvoke
  \/ GenResolve
  \/ GenReject
  \/ GenReturn
  \/ Release
  \/ StaleBalanceUpdate
  \/ ValidateXcmStepCall
  \/ ValidateReturnedSwapStepCall
  \/ ValidateTokenApproveStepCall
  \/ ValidateSetFeeTokenStepCall
  \/ ValidateReturnedProcessCall
  \/ Consume

SpecOrchestrate == InitOrchestrate /\ [][NextOrchestrate]_vars

\* ------------------------------------------------------------ specification: concurrent init calls
\* init() step by step, for calls that overlap each other and quote requests.
\* A call waits at most twice: for enableChain when the chain is not active,
\* then for the api of the chain; its two assignments follow the second wait
\* with nothing in between.
InitSteps(i) ==
  UNCHANGED <<now, balance, minAmount, processVars, call, lastExceed, isTestnet, issued,
              prevRequest, quoteStale, koniVars>>

\* const chainState = getChainStateByKey(chain); if (!chainState.active) await enableChain(chain)
InitStart(i) ==
  /\ initPc[i] = "idle"
  /\ initPc' = [initPc EXCEPT ![i] = IF chainActive THEN "connecting" ELSE "enabling"]
  /\ UNCHANGED <<chainActive, isReady, tradeRouter>>
  /\ InitSteps(i)

\* enableChain resolves, the chain is active: await substrateApi.api.isReady
InitEnableResolved(i) ==
  /\ initPc[i] = "enabling"
  /\ chainActive' = TRUE
  /\ initPc' = [initPc EXCEPT ![i] = "connecting"]
  /\ UNCHANGED <<isReady, tradeRouter>>
  /\ InitSteps(i)

\* enableChain rejects: init rejects.
InitEnableRejected(i) ==
  /\ initPc[i] = "enabling"
  /\ initPc' = [initPc EXCEPT ![i] = "failed"]
  /\ UNCHANGED <<chainActive, isReady, tradeRouter>>
  /\ InitSteps(i)

\* Mutant of InitConnected: the flag is raised, the router is not kept.
InitConnectedWithoutRouter(i) ==
  /\ initPc[i] = "connecting"
  /\ isReady' = TRUE
  /\ initPc' = [initPc EXCEPT ![i] = "done"]
  /\ UNCHANGED <<chainActive, tradeRouter>>
  /\ InitSteps(i)

\* The api is ready: this.tradeRouter = new TradeRouter(poolService); this.isReady = true
InitConnected(i) ==
  /\ initPc[i] = "connecting"
  /\ tradeRouter' = Some("TradeRouter")
  /\ isReady' = TRUE
  /\ initPc' = [initPc EXCEPT ![i] = "done"]
  /\ UNCHANGED chainActive
  /\ InitSteps(i)

\* The api never gets ready: init rejects.
InitConnectRejected(i) ==
  /\ initPc[i] = "connecting"
  /\ initPc' = [initPc EXCEPT ![i] = "failed"]
  /\ UNCHANGED <<chainActive, isReady, tradeRouter>>
  /\ InitSteps(i)

\* The caller has the outcome of its init call and may call again.
InitSettled(i) ==
  /\ initPc[i] \in {"done", "failed"}
  /\ initPc' = [initPc EXCEPT ![i] = "idle"]
  /\ UNCHANGED <<chainActive, isReady, tradeRouter>>
  /\ InitSteps(i)

InitConcurrent ==
  /\ now = 0
  /\ balance \in {b \in Balances : b["ALT"] = 0}
  /\ minAmount = [a \in HeldAssets |-> None]
  /\ pc = "idle"
  /\ params = NoParams
  /\ genStepFuncList = <<>>
  /\ gi = 1
  /\ result = EmptyPath
  /\ returned = None
  /\ invoked = <<>>
  /\ yields = <<>>
  /\ balanceMoved = FALSE
  /\ call = NoCall
  /\ lastExceed = FALSE
  /\ isTestnet = TRUE
  /\ isReady = FALSE
  /\ tradeRouter = None
  /\ issued = None
  /\ prevRequest = None
  /\ quoteStale = FALSE
  /\ InitIdle
  /\ chainActive \in BOOLEAN
  /\ KoniInit

NextConcurrent ==
  \/ \E i \in InitCalls : InitStart(i)
  \/ \E i \in InitCalls : InitEnableResolved(i)
  \/ \E i \in InitCalls : InitEnableRejected(i)
  \/ \E i \in InitCalls : InitConnected(i)
  \/ \E i \in InitCalls : InitConnectRejected(i)
  \/ \E i \in InitCalls : InitSettled(i)
  \/ GetSwapQuoteCall
  \/ Consume

SpecConcurrent == InitConcurrent /\ [][NextConcurrent]_vars

\* ------------------------------------------------------------ specification: the KoniState stores
\* For each kind, one get call at a time: getPc is "idle", "getting" (the
\* store's get is pending) or "fetching" (the remote call is pending). store is
\* what the store holds, delivered the last value handed to an update callback,
\* fetches the number of remote answers a get call has stored.
RemoteValues == {1, 2}

\* What a step on the stores leaves alone.
KoniSteps ==
  UNCHANGED <<now, balance, minAmount, processVars, call, lastExceed, handlerVars,
              prevRequest, quoteStale, initVars>>

\* setPrice / setNft: the store is written; with a callback the callback runs
\* and the store is marked ready.
setStore(k, data, hasCallback) ==
  /\ store' = [store EXCEPT ![k] = Some(data)]
  /\ storeReady' = [storeReady EXCEPT ![k] = storeReady[k] \/ hasCallback]

\* setPrice / setNft called from outside.
KoniSet(k) ==
  \E data \in RemoteValues, hasCallback \in BOOLEAN :
    /\ setStore(k, data, hasCallback)
    /\ UNCHANGED <<getPc, fetches, delivered>>
    /\ KoniSteps

\* getPrice / getNft is called: the store's get is issued.
KoniGetStart(k) ==
  /\ getPc[k] = "idle"
  /\ fetches[k] < MaxFetches
  /\ getPc' = [getPc EXCEPT ![k] = "getting"]
  /\ UNCHANGED <<store, storeReady, fetches, delivered>>
  /\ KoniSteps

\* The store's get answers with a ready store: update(rs).
KoniGetReady(k) ==
  /\ getPc[k] = "getting"
  /\ storeReady[k]
  /\ delivered' = [delivered EXCEPT ![k] = Some(store[k])]
  /\ getPc' = [getPc EXCEPT ![k] = "idle"]
  /\ UNCHANGED <<store, storeReady, fetches>>
  /\ KoniSteps

\* The store's get answers with a store not ready: the remote call is issued.
KoniGetNotReady(k) ==
  /\ getPc[k] = "getting"
  /\ ~storeReady[k]
  /\ getPc' = [getPc EXCEPT ![k] = "fetching"]
  /\ UNCHANGED <<store, storeReady, fetches, delivered>>
  /\ KoniSteps

\* Mutant of KoniFetchResolved: the remote answer is stored with a callback.
KoniFetchResolvedMarkingReady(k) ==
  \E rs \in RemoteValues :
    /\ getPc[k] = "fetching"
    /\ setStore(k, rs, TRUE)
    /\ delivered' = [delivered EXCEPT ![k] = Some(Some(rs))]
    /\ fetches' = [fetches EXCEPT ![k] = fetches[k] + 1]
    /\ getPc' = [getPc EXCEPT ![k] = "idle"]
    /\ KoniSteps

\* The remote call resolves: this.setPrice(rs) / this.setNft(rs), without a
\* callback, then update(rs).
KoniFetchResolved(k) ==
  \E rs \in RemoteValues :
    /\ getPc[k] = "fetching"
    /\ setStore(k, rs, FALSE)
    /\ delivered' = [delivered EXCEPT ![k] = Some(Some(rs))]
    /\ fetches' = [fetches EXCEPT ![k] = fetches[k] + 1]
    /\ getPc' = [getPc EXCEPT ![k] = "idle"]
    /\ KoniSteps

\* The remote call rejects: logged and rethrown, nothing stored or delivered.
KoniFetchRejected(k) ==
  /\ getPc[k] = "fetching"
  /\ getPc' = [getPc EXCEPT ![k] = "idle"]
  /\ UNCHANGED <<store, storeReady, fetches, delivered>>
  /\ KoniSteps

InitKoni ==
  /\ now = 0
  /\ balance = [a \in HeldAssets |-> 0]
  /\ minAmount = [a \in HeldAssets |-> None]
  /\ pc = "idle"
  /\ params = NoParams
  /\ genStepFuncList = <<>>
  /\ gi = 1
  /\ result = EmptyPath
  /\ returned = None
  /\ invoked = <<>>
  /\ yields = <<>>
  /\ balanceMoved = FALSE
  /\ call = NoCall
  /\ lastExceed = FALSE
  /\ isTestnet = TRUE
  /\ isReady = FALSE
  /\ tradeRouter = None
  /\ issued = None
  /\ RestInit

NextKoni ==
  \/ \E k \in Kinds : KoniSet(k)
  \/ \E k \in Kinds : KoniGetStart(k)
  \/ \E k \in Kinds : KoniGetReady(k)
  \/ \E k \in Kinds : KoniGetNotReady(k)
  \/ \E k \in Kinds : KoniFetchResolved(k)
  \/ \E k \in Kinds : KoniFetchRejected(k)

SpecKoni == InitKoni /\ [][NextKoni]_vars

\* ------------------------------------------------------------ properties of process generation
SeedPath == [totalFee |-> <<MOCK_SWAP_FEE>>, steps |-> <<DEFAULT_SWAP_FIRST_STEP>>]

\* The path a sequence of generator outcomes should leave: the seed, then one
\* step per outcome that yielded one, numbered by position, its fee beside it.
RECURSIVE PathOf(_)
PathOf(ys) ==
  IF ys = <<>> THEN SeedPath
  ELSE LET prev == PathOf(SubSeq(ys, 1, Len(ys) - 1))
           y == ys[Len(ys)]
       IN  IF y.kind = "value" /\ y.value # None
           THEN [steps |-> Append(prev.steps,
                                  [id |-> Len(prev.steps), name |-> y.value[1][1].name,
                                   type |-> y.value[1][1].type,
                                   metadata |-> y.value[1][1].metadata]),
                 totalFee |-> Append(prev.totalFee, y.value[1][2])]
           ELSE prev

Failed == pc = "done" /\ yields # <<>> /\ yields[Len(yields)].kind = "throw"

\* C1: the path under construction, seen whenever a generator is awaited or
\* has returned, and the path returned, hold as many fees as steps.
C1_FeesAsManyAsSteps ==
  /\ Len(result.totalFee) = Len(result.steps)
  /\ returned # None => Len(returned[1].totalFee) = Len(returned[1].steps)

C1_Witness ==
  /\ Failed
  /\ Len(yields) = 2
  /\ Len(returned[1].steps) = 2

\* C2: the first step and the first fee of the path are the fixed defaults at
\* every point of the call and in the path returned, and a step of the loop
\* only extends the path at its end.
C2_SeedStaysFirst ==
  /\ [](/\ pc # "idle" => result.steps[1] = DEFAULT_SWAP_FIRST_STEP /\ result.totalFee[1] = MOCK_SWAP_FEE
        /\ returned # None => /\ returned[1].steps[1] = DEFAULT_SWAP_FIRST_STEP
                              /\ returned[1].totalFee[1] = MOCK_SWAP_FEE)
  /\ [][pc = "await" =>
          /\ Len(result'.steps) >= Len(result.steps)
          /\ SubSeq(result'.steps, 1, Len(result.steps)) = result.steps
          /\ SubSeq(result'.totalFee, 1, Len(result.totalFee)) = result.totalFee]_vars

C2_Witness ==
  /\ pc = "done"
  /\ genStepFuncList = <<"getXcmStep", "getSubmitStep">>
  /\ Len(returned[1].steps) = 3
  /\ returned[1].steps[1] = DEFAULT_SWAP_FIRST_STEP

\* C3: when the k-th generator fails the call still returns, with the seed and
\* the steps and fees of generators 1..k-1, and generators 1..k are the only
\* ones that were started.
C3_FailureReturnsPathSoFar ==
  \A k \in 1..Len(yields) :
    yields[k].kind = "throw" =>
      /\ k = Len(yields)
      /\ pc = "done"
      /\ returned = Some(PathOf(SubSeq(yields, 1, k - 1)))
      /\ invoked = [i \in 1..k |-> i]

C3_Witness ==
  /\ Failed
  /\ Len(yields) = 2
  /\ Len(genStepFuncList) = 2
  /\ Len(returned[1].steps) = 2

\* C4: generators are started in list order, one at a time, the next only
\* once the previous has completed; the path is the seed plus the steps
\* yielded, each with its id equal to its index and its fee at that index.
C4_SequentialAndNumbered ==
  /\ invoked = [i \in 1..Len(invoked) |-> i]
  /\ pc = "await" => Len(invoked) = Len(yields) + 1 /\ gi = Len(invoked)
  /\ pc \in {"loop", "done"} => Len(invoked) = Len(yields)
  /\ pc # "idle" => result = PathOf(yields)
  /\ \A i \in 1..Len(result.steps) : result.steps[i].id = i - 1
  /\ returned # None => returned[1] = PathOf(yields)

C4_Witness ==
  /\ pc = "done"
  /\ ~Failed
  /\ Len(returned[1].steps) = 3
  /\ returned[1].steps[2].type = "XCM"
  /\ returned[1].steps[3].type = "SWAP"
  /\ returned[1].steps[3].id = 2

\* A finished HydradxHandler.generateOptimalProcess whose request exceeds the
\* source balance getXcmStep read, for a pair with an alternative asset.
HydradxShort ==
  /\ pc = "done"
  /\ genStepFuncList = <<"getXcmStep", "getSubmitStep">>
  /\ ~balanceMoved
  /\ params.request.fromAmount > balance[params.request.pair.from]
  /\ getSwapAlternativeAsset(params.request.pair) # None

XcmCount(path) == Cardinality(StepIndices(path, "XCM"))

XcmReturned ==
  /\ call.op = "validateXcmStep"
  /\ call.outcome.kind = "value"
  /\ call.args[1].params.selectedQuote # None
  /\ getSwapAlternativeAsset(call.args[1].params.selectedQuote[1].pair) # None

XcmErrors == call.outcome.value
XcmShortfall == call.args[1].params.selectedQuote[1].fromAmount - balance["A"]
XcmFeeOfCall ==
  OrZero(call.args[1].params.process.totalFee[call.args[1].stepIndex + 1].feeComponent[1].amount)
XcmSent == call.args[1].params.process.steps[call.args[1].stepIndex + 1].metadata[1].sendingValue

\* C8 as claimed: with no shortfall the step is valid.
C8_Claimed == (XcmReturned /\ XcmShortfall <= 0) => XcmErrors = <<>>

\* C9: with a positive shortfall the step is valid exactly when the
\* alternative balance less shortfall and fee stays at or above the floor,
\* and is refused with NOT_ENOUGH_BALANCE otherwise; the two examples.
C9_ValidIffFloorKept ==
  /\ (XcmReturned /\ XcmShortfall > 0) =>
       IF balance["ALT"] - (XcmShortfall + XcmFeeOfCall) >= OrZero(minAmount["ALT"])
       THEN XcmErrors = <<>>
       ELSE Len(XcmErrors) = 1 /\ XcmErrors[1].errorType = "NOT_ENOUGH_BALANCE"
  /\ XcmStepErrors(1500000, 2000000, 1000000, 10000, 0) = <<>>
  /\ Len(XcmStepErrors(1500000, 400000, 1000000, 10000, 0)) = 1
  /\ XcmStepErrors(1500000, 400000, 1000000, 10000, 0)[1].errorType = "NOT_ENOUGH_BALANCE"

C9_Witness ==
  /\ XcmReturned
  /\ XcmShortfall > 0
  /\ XcmFeeOfCall > 0
  /\ balance["ALT"] - (XcmShortfall + XcmFeeOfCall) = OrZero(minAmount["ALT"])
  /\ OrZero(minAmount["ALT"]) > 0
  /\ XcmErrors = <<>>

\* C10 as claimed: a top-up step built by getXcmStep and judged valid, with
\* the balances unchanged since, can be carried out (its sendingValue and its
\* fee leave the alternative asset) without going below that asset's floor.
C10_Claimed ==
  (XcmReturned /\ ~balanceMoved /\ XcmErrors = <<>>)
  => balance["ALT"] - (XcmSent + XcmFeeOfCall) >= OrZero(minAmount["ALT"])

\* C21: the NOT_ENOUGH_BALANCE error of a top-up validation carries, as its
\* maximum, from balance + alternative balance - fee - alternative floor on
\* the balances the call read; the example gives 1390000.
C21_ErrorCarriesMaxAffordable ==
  /\ (XcmReturned /\ XcmErrors # <<>>) =>
       /\ XcmErrors[1].errorType = "NOT_ENOUGH_BALANCE"
       /\ XcmErrors[1].values[1] =
            balance["A"] + balance["ALT"] - XcmFeeOfCall - OrZero(minAmount["ALT"])
  /\ XcmStepErrors(1500000, 400000, 1000000, 10000, 0)[1].values[1] = 1390000

C21_Witness ==
  /\ XcmReturned
  /\ XcmErrors # <<>>
  /\ XcmFeeOfCall > 0
  /\ OrZero(minAmount["ALT"]) > 0
  /\ balance["A"] > 0
  /\ balance["ALT"] > XcmFeeOfCall + OrZero(minAmount["ALT"])
  /\ balanceMoved

\* C25 as claimed: the cross-chain step getXcmStep has emitted sends at least
\* the shortfall on the balance it read plus the fee of the step.
C25_Claimed ==
  (/\ genStepFuncList = <<"getXcmStep", "getSubmitStep">>
   /\ Len(yields) >= 1
   /\ yields[1].kind = "value"
   /\ yields[1].value # None
   /\ ~balanceMoved)
  => yields[1].value[1][1].metadata[1].sendingValue
       >= (params.request.fromAmount - balance["A"])
          + OrZero(yields[1].value[1][2].feeComponent[1].amount)

\* ------------------------------------------------------------ properties of swap validation
\* A validateSwapStep call on a selected quote, and a validateSwapRequest
\* call for a pair the venue supports; the clock and the balances are still
\* the ones the call read.
StepCall == call.op = "validateSwapStep" /\ call.args[1].params.selectedQuote # None
StepQuote == call.args[1].params.selectedQuote[1]
RequestCall ==
  /\ call.op = "validateSwapRequest"
  /\ call.args[1].request.pair.from = "A"
  /\ call.args[1].request.pair.to = "B"
RequestAmount == call.args[1].request.fromAmount
MaxBalanceSwap == balance["A"] - OrZero(minAmount["A"])

\* C6: a quote validated at or after its aliveUntil is refused with
\* QUOTE_TIMEOUT, whatever the balance, amount, minimum swap and recipient.
C6_ExpiredQuoteTimesOut ==
  (StepCall /\ now >= StepQuote.aliveUntil)
  => call.outcome = Value(<<TransactionError("QUOTE_TIMEOUT", <<>>)>>)

C6_Witness ==
  /\ StepCall
  /\ now = StepQuote.aliveUntil + 1
  /\ StepQuote.fromAmount > 0
  /\ StepQuote.fromAmount < MaxBalanceSwap
  /\ StepQuote.minSwap = None
  /\ call.args[1].params.recipient = None
  /\ call.io = "ok"
  /\ HasError(call, "QUOTE_TIMEOUT")

AnyRequestCall == call.op = "validateSwapRequest"
Request == call.args[1].request
OffVenue(r) ==
  \/ getAssetBySlug(r.pair.from).originChain # HydradxChain
  \/ getAssetBySlug(r.pair.to).originChain # HydradxChain
LacksId(r) == ~getAssetBySlug(r.pair.from).hasAssetId \/ ~getAssetBySlug(r.pair.to).hasAssetId
EarlyError(errorType) == [error |-> Some(errorType), metadata |-> None]

\* The decision order of the claim; balanceFails adds the case of the
\* amended statement.
DecisionOrder(r, balanceFails) ==
  IF OffVenue(r) THEN EarlyError("ASSET_NOT_SUPPORTED")
  ELSE IF LacksId(r) \/ balanceFails THEN EarlyError("UNKNOWN")
  ELSE IF r.fromAmount <= 0 THEN EarlyError("AMOUNT_CANNOT_BE_ZERO")
  ELSE IF r.fromAmount >= balance[r.pair.from] - OrZero(minAmount[r.pair.from])
       THEN EarlyError("SWAP_EXCEED_ALLOWANCE")
  ELSE [error |-> None,
        metadata |-> Some([maxSwap |-> balance[r.pair.from] - OrZero(minAmount[r.pair.from])])]

\* C14 as claimed: the outcome follows the five-way order whatever the
\* balance service does.
C14_Claimed == AnyRequestCall => call.outcome.value = DecisionOrder(Request, FALSE)

\* C14 amended: the outcome follows the order with UNKNOWN also returned when
\* the balance query fails (after the chain and id tests, before the amount
\* tests); every call returns exactly one of the five outcomes.
C14_OrderWithBalanceFailure ==
  AnyRequestCall =>
    /\ call.outcome.kind = "value"
    /\ call.outcome.value = DecisionOrder(Request, call.io = "reject")

C14_Witness ==
  /\ AnyRequestCall
  /\ OffVenue(Request)
  /\ LacksId(Request)
  /\ call.outcome.value = EarlyError("ASSET_NOT_SUPPORTED")

\* C15 as claimed: a swap step whose quote has expired and whose amount is at
\* or past balance - minAmount gets an error for each of the two rules.
C15_Claimed ==
  (/\ StepCall
   /\ call.io = "ok"
   /\ now >= StepQuote.aliveUntil
   /\ StepQuote.fromAmount >= MaxBalanceSwap)
  => {"QUOTE_TIMEOUT", "SWAP_EXCEED_ALLOWANCE"} \subseteq ErrorTypesOf(call)

\* C16 as claimed: every call returns a value, also when the balance query
\* it makes fails.
C16_Claimed == call # NoCall => call.outcome.kind = "value"

\* C19: for an unexpired quote and an answered balance query, a quote with a
\* minimum swap size is refused with SWAP_NOT_ENOUGH_BALANCE when the balance
\* is at or below the minimum; above it, or with no minimum, that error is
\* never returned.
C19_MinSwapRefusesAtOrBelow ==
  (StepCall /\ call.io = "ok" /\ now < StepQuote.aliveUntil) =>
    IF StepQuote.minSwap # None /\ balance["A"] <= StepQuote.minSwap[1]
    THEN call.outcome =
           Value(<<TransactionError("SWAP_NOT_ENOUGH_BALANCE", <<StepQuote.minSwap[1]>>)>>)
    ELSE ~HasError(call, "SWAP_NOT_ENOUGH_BALANCE")

C19_Witness ==
  /\ StepCall
  /\ call.io = "ok"
  /\ now < StepQuote.aliveUntil
  /\ StepQuote.minSwap = Some(balance["A"])
  /\ balance["A"] > 1
  /\ StepQuote.fromAmount = 1
  /\ minAmount["A"] = None
  /\ HasError(call, "SWAP_NOT_ENOUGH_BALANCE")

\* The recipient of a validateSwapStep call and the addressing of the chain
\* its quote swaps to.
StepRecipient == call.args[1].params.recipient
StepDestIsEvm == _isChainEvmCompatible(getAssetBySlug(StepQuote.pair.to).originChain)
StepReachesRecipient ==
  /\ call.io = "ok"
  /\ now < StepQuote.aliveUntil
  /\ ~(StepQuote.minSwap # None /\ balance["A"] <= StepQuote.minSwap[1])
  /\ StepQuote.fromAmount < MaxBalanceSwap

\* C20: with no recipient INVALID_RECIPIENT is never returned; with one, and
\* the earlier checks passed, it is returned exactly when the address is an
\* EVM one and the destination chain is not, or the other way round.
C20_RecipientMustMatchChain ==
  StepCall =>
    /\ StepRecipient = None => ~HasError(call, "INVALID_RECIPIENT")
    /\ (StepRecipient # None /\ StepReachesRecipient) =>
         IF isEthereumAddress(StepRecipient[1]) # StepDestIsEvm
         THEN call.outcome = Value(<<TransactionError("INVALID_RECIPIENT", <<>>)>>)
         ELSE call.outcome = Value(<<>>)

C20_Witness ==
  /\ StepCall
  /\ StepReachesRecipient
  /\ StepRecipient # None
  /\ ~isEthereumAddress(StepRecipient[1])
  /\ StepDestIsEvm
  /\ HasError(call, "INVALID_RECIPIENT")

\* The early validation of the request a validateSwapStep call's quote was
\* made for, on the balance that call read.
EarlyOfStep ==
  validateSwapRequest([pair |-> StepQuote.pair, fromAmount |-> StepQuote.fromAmount], "ok")

\* A validateSwapStep call under the conditions of the comparison: the quote
\* not expired, its minimum swap size, if any, below the balance, no recipient,
\* the balance query answered.
StepComparable ==
  /\ StepCall
  /\ call.io = "ok"
  /\ now < StepQuote.aliveUntil
  /\ StepQuote.minSwap # None => StepQuote.minSwap[1] < balance["A"]
  /\ call.args[1].params.recipient = None

\* C28: where validateSwapRequest accepts the request, validateSwapStep
\* returns no error for a comparable quote of that request on the same
\* balance; where it refuses with SWAP_EXCEED_ALLOWANCE, so does validateSwapStep.
C28_EarlyAndLateAgree ==
  StepComparable =>
    /\ EarlyOfStep.error = None => call.outcome = Value(<<>>)
    /\ EarlyOfStep.error = Some("SWAP_EXCEED_ALLOWANCE")
         => ErrorTypesOf(call) = {"SWAP_EXCEED_ALLOWANCE"}

C28_Witness ==
  /\ StepComparable
  /\ EarlyOfStep.error = Some("SWAP_EXCEED_ALLOWANCE")
  /\ StepQuote.fromAmount = MaxBalanceSwap
  /\ StepQuote.minSwap # None
  /\ OrZero(minAmount["A"]) > 0
  /\ HasError(call, "SWAP_EXCEED_ALLOWANCE")

\* C29: a validateSwapStep call returns what the same call with the other
\* value of isXcmOk returns on the same clock and balance.
C29_IsXcmOkIsNotRead ==
  call.op = "validateSwapStep" =>
    call.outcome = validateSwapStep(call.args[1].params, ~call.args[1].isXcmOk, call.io)

C29_Witness ==
  /\ StepCall
  /\ call.args[1].isXcmOk
  /\ call.io = "ok"
  /\ now < StepQuote.aliveUntil
  /\ StepQuote.fromAmount > balance["A"]
  /\ HasError(call, "SWAP_EXCEED_ALLOWANCE")

\* ------------------------------------------------------------ properties of the provider handler
\* Calls of the handler; the clock, the balances and the readiness are still
\* the ones the call read.
ProcessCall == call.op = "validateSwapProcess"
ProcessQuote == call.args[1].params.selectedQuote[1]
QuoteCall == call.op = "getSwapQuote"
QuoteRequest == call.args[1].request
NotReady == ~isReady \/ tradeRouter = None
HydradxDone == pc = "done" /\ genStepFuncList = <<"getXcmStep", "getSubmitStep">>

\* C11 as claimed: validateSwapProcess of a process whose quote has expired,
\* or whose amount is past balance - minAmount, returns at least one error.
C11_Claimed ==
  (/\ ProcessCall
   /\ \/ now >= ProcessQuote.aliveUntil
      \/ ProcessQuote.fromAmount > MaxBalanceSwap)
  => call.outcome.value # <<>>

\* C12: while the handler is not ready getSwapQuote returns the UNKNOWN
\* SwapError whatever the request and the balance service do, and so no
\* quote is ever held before init has completed.
C12_NotReadyGivesUnknown ==
  /\ (QuoteCall /\ NotReady) => call.outcome = Value(SwapError("UNKNOWN"))
  /\ NotReady => issued = None

C12_Witness ==
  /\ QuoteCall
  /\ NotReady
  /\ call.io = "ok"
  /\ validateSwapRequest(QuoteRequest, "ok").error = None
  /\ HasError(call, "UNKNOWN")

\* C13 as claimed: a generateOptimalProcess of the handler that ran while it
\* was not ready returns the UNKNOWN error, not a path.
C13_Claimed ==
  (HydradxDone /\ NotReady) => returned = Some(SwapError("UNKNOWN"))

\* C17: on a ready handler getSwapQuote returns the SwapError of the kind the
\* early validation of the request reports and no quote, or, when it reports
\* none, a quote with the request's pair and amount; never both, never neither.
C17_ErrorOrQuote ==
  (QuoteCall /\ ~NotReady) =>
    /\ call.outcome.kind = "value"
    /\ IsQuote(call.outcome.value) # ("errorType" \in DOMAIN call.outcome.value)
    /\ IF validateSwapRequest(QuoteRequest, call.io).error # None
       THEN call.outcome.value = SwapError(validateSwapRequest(QuoteRequest, call.io).error[1])
       ELSE /\ IsQuote(call.outcome.value)
            /\ call.outcome.value.pair = QuoteRequest.pair
            /\ call.outcome.value.fromAmount = QuoteRequest.fromAmount

C17_Witness ==
  /\ QuoteCall
  /\ ~NotReady
  /\ IsQuote(call.outcome.value)
  /\ call.outcome.value.fromAmount = 2
  /\ issued = Some([quote |-> call.outcome.value, at |-> now])
  /\ lastExceed

\* The lifetime the venue's quotes have: its configured one, else the default.
ConfiguredTimeout ==
  IF slug \in DOMAIN SWAP_QUOTE_TIMEOUT_MAP
  THEN SWAP_QUOTE_TIMEOUT_MAP[slug]
  ELSE SWAP_QUOTE_TIMEOUT_MAP["default"]

IssuedStepCall ==
  /\ call.op = "validateSwapStep"
  /\ issued # None
  /\ call.args[1].params.selectedQuote = Some(issued[1].quote)

\* C18: the quote held was given aliveUntil = its time of issue + the venue's
\* timeout, and the validation of its swap step reports QUOTE_TIMEOUT exactly
\* from that time on.
C18_AliveUntilIssuePlusTimeout ==
  /\ issued # None => issued[1].quote.aliveUntil = issued[1].at + ConfiguredTimeout
  /\ IssuedStepCall =>
       (HasError(call, "QUOTE_TIMEOUT") <=> now >= issued[1].at + ConfiguredTimeout)

\* A quote of the venue with its own timeout, made at time 1, refused at the
\* first instant it is expired.
C18_Witness ==
  /\ IssuedStepCall
  /\ ~isTestnet
  /\ issued[1].at = 1
  /\ now = issued[1].at + ConfiguredTimeout
  /\ ConfiguredTimeout # SWAP_QUOTE_TIMEOUT_MAP["default"]
  /\ HasError(call, "QUOTE_TIMEOUT")

\* ------------------------------------------------------------ properties of repeated early validation
\* A validateSwapRequest call that repeats the one consumed before it: same
\* request, same answer of the balance service, no balance moved in between.
RepeatedRequest ==
  /\ call.op = "validateSwapRequest"
  /\ prevRequest # None
  /\ prevRequest[1].args = call.args
  /\ prevRequest[1].io = call.io

RevalidationOps ==
  {"validateXcmStep", "validateSwapStep", "validateTokenApproveStep",
   "validateSetFeeTokenStep", "validateSwapProcess"}

\* C23: a step of any of the five validations, whatever it returns, leaves
\* the path it was given, the path under construction, the parameters with
\* their selected quote and the quote held exactly as they were.
C23_ValidationLeavesPathAlone ==
  [][(call = NoCall /\ call'.op \in RevalidationOps)
      => /\ returned' = returned
         /\ result' = result
         /\ params' = params
         /\ issued' = issued
         /\ call'.args[1].params.process = returned'[1]]_vars

C23_Witness ==
  /\ call.op = "validateSwapStep"
  /\ HasError(call, "SWAP_EXCEED_ALLOWANCE")
  /\ Len(returned[1].steps) = 3
  /\ Len(returned[1].totalFee) = 3
  /\ call.args[1].params.process = returned[1]
  /\ call.args[1].params.selectedQuote = params.selectedQuote

\* C24: validateTokenApproveStep and validateSetFeeTokenStep return the empty
\* sequence for every path, quote, recipient, step index and balance.
C24_ApproveAndFeeTokenAlwaysPass ==
  call.op \in {"validateTokenApproveStep", "validateSetFeeTokenStep"}
  => call.outcome = Value(<<>>)

C24_Witness ==
  /\ call.op = "validateTokenApproveStep"
  /\ call.args[1].params.selectedQuote = None
  /\ call.args[1].stepIndex = Len(call.args[1].params.process.steps)
  /\ balance["A"] = 0
  /\ quoteStale
  /\ call.outcome = Value(<<>>)

\* A generateOptimalProcess that has finished for the quote held, no balance
\* having moved since that quote was made.
FreshQuoteDone ==
  /\ HydradxDone
  /\ issued # None
  /\ params.selectedQuote = Some(issued[1].quote)
  /\ ~quoteStale

\* The path of the claim: the default step, then the swap step with the fee
\* of the quote.
QuotePath(q) ==
  [steps |-> <<DEFAULT_SWAP_FIRST_STEP,
               [id |-> 1, name |-> "Swap", type |-> "SWAP", metadata |-> None]>>,
   totalFee |-> <<MOCK_SWAP_FEE, q.feeInfo>>]

\* C27 as claimed: the path generated for a fresh quote is the default step
\* and the swap step.
C27_Claimed == FreshQuoteDone => returned[1] = QuotePath(issued[1].quote)

\* C27 amended: the path generated for a fresh quote never holds a
\* cross-chain step; it is the default step and the swap step when the
\* balance query of getXcmStep is answered, the default step alone when not.
C27_FreshQuoteNeedsNoTopUp ==
  FreshQuoteDone =>
    /\ XcmCount(returned[1]) = 0
    /\ IF yields[1].kind = "value"
       THEN returned[1] = QuotePath(issued[1].quote)
       ELSE returned[1] = SeedPath

C27_Witness ==
  /\ FreshQuoteDone
  /\ yields[1].kind = "value"
  /\ getSwapAlternativeAsset(issued[1].quote.pair) # None
  /\ balance["ALT"] > 0
  /\ issued[1].quote.fromAmount = balance["A"] - 1
  /\ returned[1] = QuotePath(issued[1].quote)

\* ------------------------------------------------------------ properties of concurrent init calls
\* C26: isReady starts false and never goes back to false; it is raised only
\* by the last step of an init call, past both waits, with the chain active
\* and together with the router; an init call that rejects changes neither;
\* whenever isReady holds the router is set.
C26_ReadinessOneWay ==
  /\ ~isReady
  /\ [](isReady => tradeRouter # None)
  /\ [][isReady => isReady']_vars
  /\ [][(~isReady /\ isReady')
          => /\ \E i \in InitCalls : initPc[i] = "connecting" /\ initPc'[i] = "done"
             /\ chainActive
             /\ tradeRouter' # None]_vars
  /\ [][(\E i \in InitCalls : initPc[i] # "failed" /\ initPc'[i] = "failed")
          => isReady' = isReady /\ tradeRouter' = tradeRouter]_vars

\* One init call has failed, the other has completed while a quote request
\* refused for want of readiness was still with its caller.
C26_Witness ==
  /\ initPc[1] = "failed"
  /\ initPc[2] = "done"
  /\ isReady
  /\ tradeRouter # None
  /\ chainActive
  /\ call.op = "getSwapQuote"
  /\ HasError(call, "UNKNOWN")
  /\ validateSwapRequest(QuoteRequest, "ok").error = None

\* ------------------------------------------------------------ properties of the KoniState stores
\* C30: once a get call has stored a remote answer, the store is ready, no
\* remote call is pending or issued again, and a get call that has returned
\* since has delivered what the store holds.
C30_Claimed ==
  \A k \in Kinds :
    fetches[k] >= 1 =>
      /\ storeReady[k]
      /\ getPc[k] # "fetching"
      /\ fetches[k] = 1

\* What the code does instead: a get call never marks the store ready, only
\* a set call with a callback does, and a ready store is never refreshed.
C30_OnlySetWithCallbackMakesReady ==
  [][\A k \in Kinds :
       /\ (~storeReady[k] /\ storeReady'[k]) => (getPc'[k] = getPc[k] /\ fetches'[k] = fetches[k])
       /\ (storeReady[k] /\ getPc[k] = "getting") => getPc'[k] # "fetching"]_vars

\* A second remote answer has been stored by get calls of one kind with no
\* set call with a callback in between.
C30_Witness ==
  /\ fetches["price"] = 2
  /\ ~storeReady["price"]
  /\ store["price"] # None
  /\ delivered["price"] = Some(store["price"])

====
